---------------------------- MODULE Spec2Model ----------------------------
(***************************************************************************)
(* A model of scripts/1_preprocess_and_trim.c: the main processing loop    *)
(* (read a pair, try the TRA motif on read 1, else the TRB motif on        *)
(* read 2, route the pair), and extract_umi_and_trim with the C string     *)
(* functions it is built from.                                             *)
(*                                                                         *)
(* A character is a one-character string; NUL is the string terminator and *)
(* LF the line feed gzgets leaves in the buffer.  A char buffer is the     *)
(* sequence of the bytes written to it so far, kept past its terminator:   *)
(* the bytes a shorter string leaves behind stay where they are.  Offsets  *)
(* are the C offsets (0-based).  Bytes never written read as `junk`.       *)
(***************************************************************************)
EXTENDS Integers, Sequences, FiniteSets, TLC

VARIABLES
    pc,             \* "loop" | "tra" | "trb" | "done" | "fault"
    r1_record,      \* fastq_record_t r1_record
    r2_record,      \* fastq_record_t r2_record
    rc_sequence,    \* the stack bytes of extract_umi_and_trim's rc_sequence
    umi1,           \* char umi1[UMI1_LEN + 1], as a C string
    umi2,           \* char umi2[UMI2_LEN + 1], as a C string
    trimmed_seq,    \* char trimmed_seq[MAX_SEQ_LEN], as a C string
    trimmed_qual,   \* char trimmed_qual[MAX_SEQ_LEN], as a C string
    read_type,      \* 0 = none, 1 = TRA, 2 = TRB
    found_rc,
    progress,       \* progress_t: processed_pairs, tra_pairs, trb_pairs
    read_limit,
    tra_r1_out_fp,  \* the records written to each output channel
    tra_r2_out_fp,
    trb_r1_out_fp,
    trb_r2_out_fp,
    junk,           \* what a never-written byte reads as
    scratch_kept    \* whether rc_sequence's bytes survive from pair to pair

vars == << pc, r1_record, r2_record, rc_sequence, umi1, umi2, trimmed_seq,
           trimmed_qual, read_type, found_rc, progress, read_limit,
           tra_r1_out_fp, tra_r2_out_fp, trb_r1_out_fp, trb_r2_out_fp,
           junk, scratch_kept >>

channels == << tra_r1_out_fp, tra_r2_out_fp, trb_r1_out_fp, trb_r2_out_fp >>

---------------------------------------------------------------------------
(* Configuration constants and the motif literals.                         *)

UMI1_LEN == 7
UMI2_LEN == 7

PRE_UMI1_TRA ==
    << "G", "A", "C", "T", "C", "T", "G", "A", "T", "G", "A", "C", "G",
       "A", "C", "G", "C", "A", "C", "A" >>

LINKER_FWD_TRA ==
    << "G", "T", "A", "C", "A", "C", "G", "C", "T", "G", "G", "A", "T",
       "C", "C", "G", "A", "C", "T", "T", "G", "T", "A", "G", "A" >>

FLANK_TRA_SEQ ==
    << "T", "A", "C", "T", "C", "T", "G", "C", "T", "G", "A", "T", "A",
       "C", "C", "G", "A", "T", "G", "C" >>

PRE_UMI1_TRB ==
    << "G", "C", "A", "T", "C", "G", "G", "T", "A", "T", "C", "A", "G",
       "C", "A", "G", "A", "G", "T", "A" >>

LINKER_REV_TRB ==
    << "T", "C", "T", "A", "C", "A", "A", "G", "T", "C", "G", "G", "A",
       "T", "C", "C", "A", "G", "C", "G", "T", "G", "T", "A", "C" >>

FLANK_TRB_SEQ ==
    << "T", "G", "T", "G", "C", "G", "T", "C", "G", "T", "C", "A", "T",
       "C", "A", "G", "A", "G", "T", "C" >>

\* The three literals main passes to extract_umi_and_trim for each assay.
TRA == [pre_umi |-> PRE_UMI1_TRA, linker |-> LINKER_FWD_TRA, flank |-> FLANK_TRA_SEQ]
TRB == [pre_umi |-> PRE_UMI1_TRB, linker |-> LINKER_REV_TRB, flank |-> FLANK_TRB_SEQ]

NUL == "NUL"
LF == "LF"

---------------------------------------------------------------------------
(* C strings in buffers.                                                   *)

\* F applied to the value of v, v evaluated once: a local variable.
Bind(v, F(_)) == CHOOSE y \in { F(x) : x \in {v} } : TRUE

Min(S) == CHOOSE p \in S : \A q \in S : p <= q

\* buf[off], for a buffer that holds the bytes written to it so far.
ByteAt(buf, off) == IF off >= 0 /\ off < Len(buf) THEN buf[off + 1] ELSE junk

\* strlen(buf + off).  Every buffer read here ends in a written NUL.
strlen(buf, off) ==
    Min({ k \in off..Len(buf) : k = Len(buf) \/ ByteAt(buf, k) = NUL }) - off

\* The n bytes at buf + off.
Bytes(buf, off, n) ==
    IF off >= 0 /\ off + n <= Len(buf) THEN SubSeq(buf, off + 1, off + n)
    ELSE [i \in 1..n |-> ByteAt(buf, off + i - 1)]

\* The C string at buf + off, as %s and strcpy read it.
CStr(buf, off) == Bytes(buf, off, strlen(buf, off))

\* Writing `bytes` at the start of buf: the rest of buf stays as it was.
Store(buf, bytes) == bytes \o SubSeq(buf, Len(bytes) + 1, Len(buf))

\* strncpy one character short.
strncpy_short(buf, off, n) ==
    Bind(strlen(buf, off), LAMBDA l : Bytes(buf, off, IF l < n - 1 THEN l ELSE n - 1))

\* strncpy(dst, buf + off, n); dst[n] = '\0', read back as a C string.
strncpy(buf, off, n) ==
    Bind(strlen(buf, off), LAMBDA l : Bytes(buf, off, IF l < n THEN l ELSE n))

\* strncmp(buf + off, lit, strlen(lit)) == 0, lit a literal without NUL.
strncmp(buf, off, lit) == \A k \in 0..(Len(lit) - 1) : ByteAt(buf, off + k) = lit[k + 1]

\* gzgets: the line, its line feed and a terminator, over what was there.
gzgets(buf, line) == Store(buf, line \o << LF, NUL >>)

\* strcspn(buf, "\n")
strcspn(buf) == Min({ k \in 0..Len(buf) : k = Len(buf) \/ buf[k + 1] \in {LF, NUL} })

\* gzgets, then buf[strcspn(buf, "\n")] = '\0'.
ReadLine(buf, line) ==
    Bind(gzgets(buf, line), LAMBDA got : [got EXCEPT ![strcspn(got) + 1] = NUL])

\* read_fastq_record when all four lines are there.
read_fastq_record(record, in) ==
    [header   |-> in.header,
     sequence |-> ReadLine(record.sequence, in.sequence),
     quality  |-> ReadLine(record.quality, in.quality)]

---------------------------------------------------------------------------
(* Sequence utilities and the matcher.                                     *)

Complement(c) ==
    CASE c = "A" -> "T"
      [] c = "T" -> "A"
      [] c = "C" -> "G"
      [] c = "G" -> "C"
      [] OTHER   -> "N"

\* The complement without the reversal.
reverse_complement_forward(seq, rc_seq) ==
    Bind(strlen(seq, 0), LAMBDA len :
        Store(rc_seq, [j \in 1..len |-> Complement(seq[j])] \o << NUL >>))

\* reverse_complement(seq, rc_seq): rc_seq[0 .. len] is written, no more.
reverse_complement(seq, rc_seq) ==
    Bind(strlen(seq, 0), LAMBDA len :
        Store(rc_seq, [j \in 1..len |-> Complement(seq[len + 1 - j])] \o << NUL >>))

\* strstr: the offset of the first occurrence, -1 for NULL.  The pattern
\* holds no NUL, so an occurrence lies inside the string.
find_pattern(sequence, pattern) ==
    Bind({ p \in 0..(strlen(sequence, 0) - Len(pattern)) : strncmp(sequence, p, pattern) },
         LAMBDA hits : IF hits = {} THEN -1 ELSE Min(hits))

\* Lines 349-366: the buffer searched, the anchor's offset in it (-1: none),
\* *found_rc, and rc_sequence as the call leaves it.
Locate(sequence, pre_umi, rc_in) ==
    Bind(find_pattern(sequence, pre_umi), LAMBDA fwd :
        IF fwd # -1
        THEN [search_seq |-> sequence, match_pos |-> fwd, found_rc |-> 0,
              rc_sequence |-> rc_in]
        ELSE Bind(reverse_complement(sequence, rc_in), LAMBDA rc_buf :
                Bind(find_pattern(rc_buf, pre_umi), LAMBDA rev :
                    [search_seq |-> rc_buf, match_pos |-> rev,
                     found_rc |-> IF rev # -1 THEN 1 ELSE 0,
                     rc_sequence |-> rc_buf])))

\* Only 'A' is taken.
TerminalBase_A(c) == c = "A"

\* "Check for A or T"
TerminalBase(c) == c = "A" \/ c = "T"

\* Lines 368-415, for the anchor found at loc.match_pos of loc.search_seq.
Validate(sequence, loc, pre_umi, linker, flank, umi1_in, umi2_in, trimmed_in) ==
    LET search_seq == loc.search_seq
        pos_umi1   == loc.match_pos + Len(pre_umi)
        pos_linker == pos_umi1 + UMI1_LEN
        pos_umi2   == pos_linker + Len(linker)
        pos_flank  == pos_umi2 + UMI2_LEN
        pos_term   == pos_flank + Len(flank)
        pos        == pos_term + 1
        out(r, u1, u2, t, f) ==
            [ret |-> r, found_rc |-> loc.found_rc, umi1 |-> u1, umi2 |-> u2,
             trimmed_seq |-> t, rc_sequence |-> loc.rc_sequence, fault |-> f,
             pos |-> pos]
    IN  IF loc.match_pos = -1
            THEN out(0, umi1_in, umi2_in, trimmed_in, FALSE)
        ELSE IF ~strncmp(search_seq, pos_linker, linker)
            THEN out(0, strncpy(search_seq, pos_umi1, UMI1_LEN), umi2_in, trimmed_in, FALSE)
        ELSE IF \/ ~strncmp(search_seq, pos_flank, flank)
                \/ ~TerminalBase(ByteAt(search_seq, pos_term))
            THEN out(0, strncpy(search_seq, pos_umi1, UMI1_LEN),
                     strncpy(search_seq, pos_umi2, UMI2_LEN), trimmed_in, FALSE)
        ELSE IF loc.found_rc = 1
            THEN IF strlen(sequence, 0) - pos < 0
                 \* strncpy with a negative count, taken as a huge size_t:
                 \* it pads trimmed_seq with zeros far past the stack.
                 THEN out(0, strncpy(search_seq, pos_umi1, UMI1_LEN),
                          strncpy(search_seq, pos_umi2, UMI2_LEN), trimmed_in, TRUE)
                 ELSE out(1, strncpy(search_seq, pos_umi1, UMI1_LEN),
                          strncpy(search_seq, pos_umi2, UMI2_LEN),
                          strncpy(sequence, 0, strlen(sequence, 0) - pos), FALSE)
        ELSE out(1, strncpy(search_seq, pos_umi1, UMI1_LEN),
                 strncpy(search_seq, pos_umi2, UMI2_LEN), CStr(sequence, pos), FALSE)

\* The call's result: its return value, what it leaves in *found_rc, umi1,
\* umi2, trimmed_seq and rc_sequence, pos - search_seq when it returns, and
\* whether it faults.
extract_umi_and_trim(sequence, pre_umi, linker, flank, umi1_in, umi2_in, trimmed_in, rc_in) ==
    Bind(Locate(sequence, pre_umi, rc_in), LAMBDA loc :
        Validate(sequence, loc, pre_umi, linker, flank, umi1_in, umi2_in, trimmed_in))

---------------------------------------------------------------------------
(* The pieces of main's loop body.                                         *)

\* The header of read 2 without the orientation marker.
header_mod_r2(header, assay, u1, u2, rc) ==
    [header |-> header,
     tag    |-> << "UMI", assay, u1, u2 >>
                \o (IF rc # 0 /\ header[2] = 1 THEN << "RC" >> ELSE << >>)]

\* The annotated header: "<header> UMI:<ASSAY>:<umi1>_<umi2>" and ":RC".
header_mod(header, assay, u1, u2, rc) ==
    [header |-> header,
     tag    |-> << "UMI", assay, u1, u2 >> \o (IF rc # 0 THEN << "RC" >> ELSE << >>)]

\* "Calculate trimmed quality": trimmed_qual after the strncpy or the strcpy.
TrimQuality(record, trimmed, rc) ==
    IF rc # 0
    THEN strncpy(record.quality, 0, Len(trimmed))
    ELSE CStr(record.quality, strlen(record.sequence, 0) - Len(trimmed))

\* The guard without the partner's sequence.
WriteGuard_trimmed(trimmed, partner) == Len(trimmed) > 0

\* The guard in front of the two gzprintf calls.
WriteGuard(trimmed, partner) == Len(trimmed) > 0 /\ strlen(partner.sequence, 0) > 0

\* gzprintf(fp, "%s\n%s\n%s\n%s\n", header, sequence, plus, quality)
gzprintf(fp, header, sequence, quality) ==
    Append(fp, [header |-> header, sequence |-> sequence, quality |-> quality])

\* The counter left as it is.
Increment_none(n) == n

\* progress.<counter>++
Increment(n) == n + 1

\* The TRB block entered whatever read_type is.
AfterTRA_always(type) == "trb"

\* Where the loop body goes after the TRA block: "if (read_type == 0)".
AfterTRA(type) == IF type = 0 THEN "trb" ELSE "loop"

---------------------------------------------------------------------------
(* The input: what the two streams may hold.                               *)

MaxPairs == 3

Quality(n) == [i \in 1..n |-> ToString(i)]

RevComp(s) == [j \in 1..Len(s) |-> Complement(s[Len(s) + 1 - j])]

Composite(m, u1, u2, lk, fl, t) == m.pre_umi \o u1 \o lk \o u2 \o fl \o << t >>

U_A == << "A", "A", "A", "A", "A", "A", "A" >>
U_T == << "T", "T", "T", "T", "T", "T", "T" >>

Plain   == << "C", "C", "G", "G" >>
Payload == << "G", "G", "G", "C", "C", "C" >>
Lead    == << "G", "G", "A" >>
Empty   == << >>

TraOnly   == Composite(TRA, U_A, U_T, TRA.linker, TRA.flank, "A")
TraFwd    == TraOnly \o Payload
TraFwdCut == PRE_UMI1_TRA \o << "A", "C" >>
TraRc     == Lead \o RevComp(TraOnly)
TraRcCut  == RevComp(PRE_UMI1_TRA \o << "A", "C" >>)
TrbOnly   == Composite(TRB, U_T, U_A, TRB.linker, TRB.flank, "T")
TrbFwd    == TrbOnly \o Payload
TrbRc     == Lead \o RevComp(TrbOnly)

LoopPairs ==
    { << TraFwd, Plain >>, << TraFwdCut, Plain >>, << TraRc, Plain >>,
      << TraRcCut, Plain >>, << Plain, TrbFwd >>, << Plain, TrbRc >>,
      << Plain, Plain >>, << TraOnly, Plain >>, << TraFwd, Empty >>,
      << TraFwd, TrbFwd >>, << Empty, TrbFwd >>, << Plain, TrbOnly >> }

InputRecord(n, r, s) == [header |-> << n, r >>, sequence |-> s, quality |-> Quality(Len(s))]

---------------------------------------------------------------------------
(* The state machine.                                                      *)

NoRecord == [header |-> << 0, 0 >>, sequence |-> << >>, quality |-> << >>]

Init ==
    /\ pc = "loop"
    /\ r1_record = NoRecord
    /\ r2_record = NoRecord
    /\ rc_sequence = << >>
    /\ umi1 = << >>
    /\ umi2 = << >>
    /\ trimmed_seq = << >>
    /\ trimmed_qual = << >>
    /\ read_type = 0
    /\ found_rc = 0
    /\ progress = [processed_pairs |-> 0, tra_pairs |-> 0, trb_pairs |-> 0]
    /\ read_limit = MaxPairs
    /\ tra_r1_out_fp = << >>
    /\ tra_r2_out_fp = << >>
    /\ trb_r1_out_fp = << >>
    /\ trb_r2_out_fp = << >>
    /\ junk \in {NUL, "?"}
    /\ scratch_kept \in BOOLEAN

\* Both records of the next pair are read; the body starts.
ReadPair(in) ==
    /\ pc = "loop"
    /\ progress.processed_pairs < read_limit
    /\ r1_record' = read_fastq_record(r1_record,
                        InputRecord(progress.processed_pairs + 1, 1, in[1]))
    /\ r2_record' = read_fastq_record(r2_record,
                        InputRecord(progress.processed_pairs + 1, 2, in[2]))
    /\ progress' = [progress EXCEPT !.processed_pairs = Increment(@)]
    /\ read_type' = 0
    /\ found_rc' = 0
    /\ rc_sequence' = IF scratch_kept THEN rc_sequence ELSE << >>
    /\ pc' = "tra"
    /\ UNCHANGED << umi1, umi2, trimmed_seq, trimmed_qual, read_limit, channels,
                    junk, scratch_kept >>

\* The read-1 stream is at its end: break.
EndOfR1 ==
    /\ pc = "loop"
    /\ progress.processed_pairs < read_limit
    /\ pc' = "done"
    /\ UNCHANGED << r1_record, r2_record, rc_sequence, umi1, umi2, trimmed_seq,
                    trimmed_qual, read_type, found_rc, progress, read_limit,
                    channels, junk, scratch_kept >>

\* Read 1 is read and the read-2 stream is at its end: break.
EndOfR2(s) ==
    /\ pc = "loop"
    /\ progress.processed_pairs < read_limit
    /\ r1_record' = read_fastq_record(r1_record,
                        InputRecord(progress.processed_pairs + 1, 1, s))
    /\ pc' = "done"
    /\ UNCHANGED << r2_record, rc_sequence, umi1, umi2, trimmed_seq,
                    trimmed_qual, read_type, found_rc, progress, read_limit,
                    channels, junk, scratch_kept >>

\* while (progress.processed_pairs < read_limit) is false.
LimitReached ==
    /\ pc = "loop"
    /\ progress.processed_pairs >= read_limit
    /\ pc' = "done"
    /\ UNCHANGED << r1_record, r2_record, rc_sequence, umi1, umi2, trimmed_seq,
                    trimmed_qual, read_type, found_rc, progress, read_limit,
                    channels, junk, scratch_kept >>

\* "Check R1 for TRA pattern".
CheckTRA ==
    /\ pc = "tra"
    /\ \E x \in { extract_umi_and_trim(r1_record.sequence, TRA.pre_umi, TRA.linker,
                      TRA.flank, umi1, umi2, trimmed_seq, rc_sequence) } :
       \E qual \in { IF x.ret = 1 THEN TrimQuality(r1_record, x.trimmed_seq, x.found_rc)
                     ELSE trimmed_qual } :
       \E write \in { x.ret = 1 /\ WriteGuard(x.trimmed_seq, r2_record) } :
           /\ umi1' = x.umi1
           /\ umi2' = x.umi2
           /\ rc_sequence' = x.rc_sequence
           /\ found_rc' = x.found_rc
           /\ trimmed_seq' = x.trimmed_seq
           /\ trimmed_qual' = qual
           /\ read_type' = x.ret
           /\ tra_r1_out_fp' =
                  IF write
                  THEN gzprintf(tra_r1_out_fp,
                           header_mod(r1_record.header, "TRA", x.umi1, x.umi2, x.found_rc),
                           x.trimmed_seq, qual)
                  ELSE tra_r1_out_fp
           /\ tra_r2_out_fp' =
                  IF write
                  THEN gzprintf(tra_r2_out_fp,
                           header_mod(r2_record.header, "TRA", x.umi1, x.umi2, x.found_rc),
                           CStr(r2_record.sequence, 0), CStr(r2_record.quality, 0))
                  ELSE tra_r2_out_fp
           /\ progress' = IF write THEN [progress EXCEPT !.tra_pairs = Increment(@)]
                          ELSE progress
           /\ pc' = IF x.fault THEN "fault" ELSE AfterTRA(x.ret)
    /\ UNCHANGED << r1_record, r2_record, read_limit, trb_r1_out_fp, trb_r2_out_fp,
                    junk, scratch_kept >>

\* "Check R2 for TRB pattern (only if not TRA)".
CheckTRB ==
    /\ pc = "trb"
    /\ \E x \in { extract_umi_and_trim(r2_record.sequence, TRB.pre_umi, TRB.linker,
                      TRB.flank, umi1, umi2, trimmed_seq, rc_sequence) } :
       \E qual \in { IF x.ret = 1 THEN TrimQuality(r2_record, x.trimmed_seq, x.found_rc)
                     ELSE trimmed_qual } :
       \E write \in { x.ret = 1 /\ WriteGuard(x.trimmed_seq, r1_record) } :
           /\ umi1' = x.umi1
           /\ umi2' = x.umi2
           /\ rc_sequence' = x.rc_sequence
           /\ found_rc' = x.found_rc
           /\ trimmed_seq' = x.trimmed_seq
           /\ trimmed_qual' = qual
           /\ read_type' = IF x.ret = 1 THEN 2 ELSE read_type
           /\ trb_r1_out_fp' =
                  IF write
                  THEN gzprintf(trb_r1_out_fp,
                           header_mod(r1_record.header, "TRB", x.umi1, x.umi2, x.found_rc),
                           CStr(r1_record.sequence, 0), CStr(r1_record.quality, 0))
                  ELSE trb_r1_out_fp
           /\ trb_r2_out_fp' =
                  IF write
                  THEN gzprintf(trb_r2_out_fp,
                           header_mod(r2_record.header, "TRB", x.umi1, x.umi2, x.found_rc),
                           x.trimmed_seq, qual)
                  ELSE trb_r2_out_fp
           /\ progress' = IF write THEN [progress EXCEPT !.trb_pairs = Increment(@)]
                          ELSE progress
           /\ pc' = IF x.fault THEN "fault" ELSE "loop"
    /\ UNCHANGED << r1_record, r2_record, read_limit, tra_r1_out_fp, tra_r2_out_fp,
                    junk, scratch_kept >>

Next ==
    \/ \E in \in LoopPairs : ReadPair(in)
    \/ EndOfR1
    \/ \E in \in LoopPairs : EndOfR2(in[1])
    \/ LimitReached
    \/ CheckTRA
    \/ CheckTRB

Spec == Init /\ [][Next]_vars

---------------------------------------------------------------------------
(* extract_umi_and_trim on its own: the first pair has just been read, one *)
(* of its reads built around a composite, and the loop body runs once.     *)

MaxPad == 1

PadChars == {"C", "N"}

\* The sequences over PadChars of length n, and of length up to n.
RECURSIVE PadsOfLen(_)
PadsOfLen(n) ==
    IF n = 0 THEN { << >> }
    ELSE { << c >> \o s : c \in PadChars, s \in PadsOfLen(n - 1) }

Pads == UNION { PadsOfLen(n) : n \in 0..MaxPad }

\* What may stand before and after the composite: a pad, the anchor, or the
\* anchor's reverse complement.
Around(m) == Pads \cup { m.pre_umi, RevComp(m.pre_umi) }

U_X == << "A", "C", "G", "T", "N", "A", "C" >>
U_Y == << "G", "G", "T", "T", "A", "C", "N" >>

Umis == { << U_A, U_T >>, << U_X, U_Y >> }

Terminals == {"A", "C", "G", "T", "N"}

\* lit with its k-th character replaced by another one.
Corrupt(lit, k) == [lit EXCEPT ![k] = Complement(@)]

CorruptAt(lit) == {1, (Len(lit) + 1) \div 2, Len(lit)}

\* The linker and flank as they stand in the read: exact, or one character
\* of one of them changed.
Middles(m) ==
    { << m.linker, m.flank >> }
    \cup { << Corrupt(m.linker, k), m.flank >> : k \in CorruptAt(m.linker) }
    \cup { << m.linker, Corrupt(m.flank, k) >> : k \in CorruptAt(m.flank) }

\* The reads built around a composite of motif m, in either orientation.
Reads(m) ==
    UNION { { pre \o c \o post, pre \o RevComp(c) \o post } :
            pre \in Around(m), post \in Around(m),
            c \in { Composite(m, u[1], u[2], mid[1], mid[2], t) :
                    u \in Umis, mid \in Middles(m), t \in Terminals } }

ExtractPairs ==
    { << s, Plain >> : s \in Reads(TRA) } \cup { << Plain, s >> : s \in Reads(TRB) }

InitExtract ==
    /\ pc = "tra"
    /\ \E in \in ExtractPairs :
         /\ r1_record = read_fastq_record(NoRecord, InputRecord(1, 1, in[1]))
         /\ r2_record = read_fastq_record(NoRecord, InputRecord(1, 2, in[2]))
    /\ rc_sequence = << >>
    /\ umi1 = << >>
    /\ umi2 = << >>
    /\ trimmed_seq = << >>
    /\ trimmed_qual = << >>
    /\ read_type = 0
    /\ found_rc = 0
    /\ progress = [processed_pairs |-> 1, tra_pairs |-> 0, trb_pairs |-> 0]
    /\ read_limit = 1
    /\ tra_r1_out_fp = << >>
    /\ tra_r2_out_fp = << >>
    /\ trb_r1_out_fp = << >>
    /\ trb_r2_out_fp = << >>
    /\ junk = NUL
    /\ scratch_kept = TRUE

NextExtract == CheckTRA \/ CheckTRB

SpecExtract == InitExtract /\ [][NextExtract]_vars

---------------------------------------------------------------------------
(* What the properties below speak about.                                  *)

tra_pairs == progress.tra_pairs
trb_pairs == progress.trb_pairs
processed_pairs == progress.processed_pairs

\* Both records in the buffers belong to the pair counted last.
CurrentPair ==
    /\ processed_pairs > 0
    /\ r1_record.header = << processed_pairs, 1 >>
    /\ r2_record.header = << processed_pairs, 2 >>

\* The TRA call on the current read 1 has returned; it succeeded or not.
TraCallDone == CurrentPair /\ pc \in {"trb", "loop"}
TraMatched  == read_type = 1

\* The TRB call on the current read 2 has returned; it succeeded or not.
TrbCallDone == CurrentPair /\ pc = "loop" /\ read_type # 1
TrbMatched  == read_type = 2

Seq1 == CStr(r1_record.sequence, 0)
Seq2 == CStr(r2_record.sequence, 0)
Qual1 == CStr(r1_record.quality, 0)
Qual2 == CStr(r2_record.quality, 0)

\* The pair numbers of the records of a channel.
PairsOf(fp) == { fp[k].header.header[1] : k \in 1..Len(fp) }

\* pat stands at offset i of the string s.
At(s, i, pat) == i >= 0 /\ i + Len(pat) <= Len(s) /\ SubSeq(s, i + 1, i + Len(pat)) = pat

\* The offset of the first occurrence of pat in the string s, -1 for none.
First(s, pat) ==
    LET hits == { i \in 0..(Len(s) - Len(pat)) : At(s, i, pat) }
    IN  IF hits = {} THEN -1 ELSE Min(hits)

\* The string extract_umi_and_trim searches: s when the anchor is in it,
\* else its reverse complement.
Searched(s, m) == IF First(s, m.pre_umi) # -1 THEN s ELSE RevComp(s)

\* The characters a composite needs after its anchor.
Need(m) == UMI1_LEN + Len(m.linker) + UMI2_LEN + Len(m.flank) + 1

\* The characters that follow the first anchor of the searched string.
Follow(s, m) ==
    LET z == Searched(s, m)
    IN  Len(z) - (First(z, m.pre_umi) + Len(m.pre_umi))

\* The anchor is found, with too few characters after it for a composite.
TooClose(s, m) == First(Searched(s, m), m.pre_umi) # -1 /\ Follow(s, m) < Need(m)

\* The offsets in string z, counted from an anchor at offset i.
OffUmi1(m, i)   == i + Len(m.pre_umi)
OffLinker(m, i) == OffUmi1(m, i) + UMI1_LEN
OffUmi2(m, i)   == OffLinker(m, i) + Len(m.linker)
OffFlank(m, i)  == OffUmi2(m, i) + UMI2_LEN
OffTerm(m, i)   == OffFlank(m, i) + Len(m.flank)
OffEnd(m, i)    == OffTerm(m, i) + 1

\* anchor + 7 + linker + 7 + flank + t stands at offset i of z.
CompositeAt(z, m, i, t) ==
    /\ At(z, i, m.pre_umi)
    /\ At(z, OffLinker(m, i), m.linker)
    /\ At(z, OffFlank(m, i), m.flank)
    /\ At(z, OffTerm(m, i), << t >>)

Umi1At(z, m, i) == SubSeq(z, OffUmi1(m, i) + 1, OffUmi1(m, i) + UMI1_LEN)
Umi2At(z, m, i) == SubSeq(z, OffUmi2(m, i) + 1, OffUmi2(m, i) + UMI2_LEN)

\* pos - search_seq when the call on the current read returns.
EndBoundary(record, m) ==
    extract_umi_and_trim(record.sequence, m.pre_umi, m.linker, m.flank,
                         umi1, umi2, trimmed_seq, rc_sequence).pos

Suffix(s, n) == SubSeq(s, Len(s) - n + 1, Len(s))
Prefix(s, n) == SubSeq(s, 1, n)

---------------------------------------------------------------------------
(* The main loop.                                                          *)

\* C1: a pair contributes to at most one assay's channels.  When the TRA
\* extraction on read 1 succeeds, written or not, the body does not go on
\* to the TRB extraction and leaves both TRB channels as they are; the TRB
\* extraction runs only with read_type = 0; and no pair has a record in a
\* TRA channel and in a TRB channel.
C1_OneAssayPerPair ==
    /\ [](/\ (PairsOf(tra_r1_out_fp) \cup PairsOf(tra_r2_out_fp))
              \cap (PairsOf(trb_r1_out_fp) \cup PairsOf(trb_r2_out_fp)) = {}
          /\ (pc = "trb" => read_type = 0))
    /\ [][(pc = "tra" /\ read_type' = 1)
            => (pc' # "trb" /\ UNCHANGED << trb_r1_out_fp, trb_r2_out_fp >>)]_vars

\* The pair (TRA composite, TRB composite) has gone to the TRA channels
\* alone.
C1_Witness ==
    /\ pc = "loop" /\ CurrentPair /\ TraMatched
    /\ Seq1 = TraFwd /\ Seq2 = TrbFwd
    /\ PairsOf(tra_r1_out_fp) = {processed_pairs}
    /\ trb_r1_out_fp = << >> /\ trb_r2_out_fp = << >>

\* C2: processed_pairs grows by one exactly in the step that has read both
\* records of a pair, and in no other; tra_pairs and trb_pairs never
\* decrease and grow by at most one, never both in a step; a pair still in
\* the body has not been counted as TRA or TRB, so that at most one of the
\* two grows per pair; and tra_pairs + trb_pairs <= processed_pairs.
C2_Counters ==
    /\ [](tra_pairs + trb_pairs
            <= processed_pairs - (IF pc \in {"tra", "trb"} THEN 1 ELSE 0))
    /\ [][/\ (pc = "loop" /\ pc' = "tra") <=> (processed_pairs' = processed_pairs + 1)
          /\ processed_pairs' \in {processed_pairs, processed_pairs + 1}
          /\ tra_pairs' \in {tra_pairs, tra_pairs + 1}
          /\ trb_pairs' \in {trb_pairs, trb_pairs + 1}
          /\ tra_pairs' = tra_pairs \/ trb_pairs' = trb_pairs
          /\ (tra_pairs' # tra_pairs \/ trb_pairs' # trb_pairs)
                => pc \in {"tra", "trb"} /\ pc' = "loop"]_vars

\* Three pairs processed: one TRA, one TRB, one neither.
C2_Witness ==
    pc = "loop" /\ processed_pairs = 3 /\ tra_pairs = 1 /\ trb_pairs = 1

\* C9: every record of every channel has a non-empty sequence; and a pair
\* whose extraction succeeds with an empty trimmed sequence, or with an
\* empty partner sequence, counted in processed_pairs, leaves all four
\* channels and both subtotals as they are.
C9_NonEmptyOutput ==
    /\ [](\A fp \in {tra_r1_out_fp, tra_r2_out_fp, trb_r1_out_fp, trb_r2_out_fp} :
            \A k \in 1..Len(fp) : Len(fp[k].sequence) > 0)
    /\ [][(\/ pc = "tra" /\ read_type' = 1 /\ (trimmed_seq' = << >> \/ Seq2 = << >>)
           \/ pc = "trb" /\ read_type' = 2 /\ (trimmed_seq' = << >> \/ Seq1 = << >>))
            => /\ UNCHANGED channels
               /\ tra_pairs' = tra_pairs /\ trb_pairs' = trb_pairs
               /\ CurrentPair]_vars

\* The TRA extraction succeeded on a read 1 that ends with its motif: the
\* trimmed sequence is empty and nothing was written or counted.
C9_Witness ==
    /\ pc = "loop" /\ CurrentPair /\ TraMatched /\ trimmed_seq = << >>
    /\ Seq2 # << >>
    /\ processed_pairs = 1 /\ tra_pairs = 0 /\ trb_pairs = 0
    /\ tra_r1_out_fp = << >> /\ tra_r2_out_fp = << >>

\* The k-th records of an assay's two channels: the two reads of one pair,
\* with one UMI tag.
SamePair(fp1, fp2) ==
    /\ Len(fp1) = Len(fp2)
    /\ \A k \in 1..Len(fp1) :
         /\ fp1[k].header.header[2] = 1
         /\ fp2[k].header.header[2] = 2
         /\ fp1[k].header.header[1] = fp2[k].header.header[1]
         /\ fp1[k].header.tag = fp2[k].header.tag

\* The records of a channel come in input order.
InInputOrder(fp) ==
    \A j, k \in 1..Len(fp) : j < k => fp[j].header.header[1] < fp[k].header.header[1]

C3_ShortReadNoMatch ==
    /\ (TraCallDone /\ TooClose(Seq1, TRA))
          => ~TraMatched /\ processed_pairs \notin PairsOf(tra_r1_out_fp)
    /\ (TrbCallDone /\ TooClose(Seq2, TRB))
          => ~TrbMatched /\ processed_pairs \notin PairsOf(trb_r2_out_fp)

\* The slice of the original the claim C4 gives for a match with end
\* boundary e.
TrimOf(s, e, rc) ==
    IF rc = 0 THEN SubSeq(s, e + 1, Len(s)) ELSE SubSeq(s, 1, Len(s) - e)

\* C4: when the extraction succeeds with motif end boundary e, the trimmed
\* sequence is original[e .. len) for a Forward match and
\* original[0 .. len - e) for a ReverseComplement match: a slice of the
\* original.
C4_TrimIsSlice ==
    /\ (TraCallDone /\ TraMatched)
          => /\ EndBoundary(r1_record, TRA) <= Len(Seq1)
             /\ trimmed_seq = TrimOf(Seq1, EndBoundary(r1_record, TRA), found_rc)
    /\ (TrbCallDone /\ TrbMatched)
          => /\ EndBoundary(r2_record, TRB) <= Len(Seq2)
             /\ trimmed_seq = TrimOf(Seq2, EndBoundary(r2_record, TRB), found_rc)

\* The written record is the same slice of the sequence s and of the
\* quality q: a suffix for a Forward match, a prefix otherwise.
SameSlice(rec, s, q, rc) ==
    LET n == Len(rec.sequence)
    IN  /\ Len(rec.quality) = n
        /\ n <= Len(s)
        /\ IF rc = 0
           THEN rec.sequence = Suffix(s, n) /\ rec.quality = Suffix(q, n)
           ELSE rec.sequence = Prefix(s, n) /\ rec.quality = Prefix(q, n)

\* C5: for a written pair whose trimmed read has len(quality) =
\* len(sequence), the quality written is the slice of the original quality
\* over the index range the written sequence has in the original sequence,
\* and the written record has len(quality) = len(sequence).
C5_QualityTracksSequence ==
    /\ (TraCallDone /\ TraMatched /\ processed_pairs \in PairsOf(tra_r1_out_fp)
            /\ Len(Qual1) = Len(Seq1))
          => SameSlice(tra_r1_out_fp[Len(tra_r1_out_fp)], Seq1, Qual1, found_rc)
    /\ (TrbCallDone /\ TrbMatched /\ processed_pairs \in PairsOf(trb_r2_out_fp)
            /\ Len(Qual2) = Len(Seq2))
          => SameSlice(trb_r2_out_fp[Len(trb_r2_out_fp)], Seq2, Qual2, found_rc)

---------------------------------------------------------------------------
(* extract_umi_and_trim.                                                   *)

\* The claim C6 for the call on the string s with motif m, for the
\* composites that stand at the offsets in `where`.
ForwardFound(s, m, where, matched) ==
    \A i \in where :
        CompositeAt(s, m, i, "A")
            => /\ matched
               /\ found_rc = 0
               /\ umi1 = Umi1At(s, m, i)
               /\ umi2 = Umi2At(s, m, i)

\* C6 as stated: a sequence that holds anchor + umi1 + linker + umi2 +
\* flank + "A" anywhere, whatever stands before and after it, is matched
\* Forward with these umi1 and umi2.
C6_AnyForwardComposite ==
    /\ TraCallDone => ForwardFound(Seq1, TRA, 0..Len(Seq1), TraMatched)
    /\ TrbCallDone => ForwardFound(Seq2, TRB, 0..Len(Seq2), TrbMatched)

\* C6, amended: a sequence that holds anchor + umi1 + linker + umi2 +
\* flank + "A" at the first occurrence of the anchor is matched Forward
\* with these umi1 and umi2.
C6_FirstForwardComposite ==
    /\ TraCallDone => ForwardFound(Seq1, TRA, {First(Seq1, TRA.pre_umi)}, TraMatched)
    /\ TrbCallDone => ForwardFound(Seq2, TRB, {First(Seq2, TRB.pre_umi)}, TrbMatched)

\* A TRB composite with characters before and after it has been matched:
\* the anchor's reverse complement before it, a pad after it.
C6_Witness ==
    /\ TrbCallDone /\ TrbMatched /\ found_rc = 0
    /\ First(Seq2, TRB.pre_umi) = Len(TRB.pre_umi)
    /\ CompositeAt(Seq2, TRB, First(Seq2, TRB.pre_umi), "A")
    /\ Len(Seq2) > OffEnd(TRB, First(Seq2, TRB.pre_umi))
    /\ umi1 = U_X /\ umi2 = U_Y

\* The claim C7 for the call on the string s with motif m, for the
\* composites that stand at the offsets in `where` of s's reverse
\* complement.
ReverseFound(s, m, where, matched) ==
    \A i \in where :
        CompositeAt(RevComp(s), m, i, "A")
            => /\ matched
               /\ found_rc = 1
               /\ umi1 = Umi1At(RevComp(s), m, i)
               /\ umi2 = Umi2At(RevComp(s), m, i)

\* C7 as stated: a sequence that holds the reverse complement of a
\* composite anywhere, whatever stands around it, is matched
\* ReverseComplement with the composite's umi1 and umi2.
C7_AnyReverseComposite ==
    /\ TraCallDone => ReverseFound(Seq1, TRA, 0..Len(Seq1), TraMatched)
    /\ TrbCallDone => ReverseFound(Seq2, TRB, 0..Len(Seq2), TrbMatched)

\* C7, amended: a sequence over {A, C, G, T, N} that does not hold the
\* anchor, and whose reverse complement holds the composite at its first
\* occurrence of the anchor, is matched ReverseComplement with the
\* composite's umi1 and umi2.
C7_FirstReverseComposite ==
    /\ (TraCallDone /\ First(Seq1, TRA.pre_umi) = -1)
          => ReverseFound(Seq1, TRA, {First(RevComp(Seq1), TRA.pre_umi)}, TraMatched)
    /\ (TrbCallDone /\ First(Seq2, TRB.pre_umi) = -1)
          => ReverseFound(Seq2, TRB, {First(RevComp(Seq2), TRB.pre_umi)}, TrbMatched)

\* The reverse complement of a TRA composite, a pad before it and a pad
\* after it, has been matched.
C7_Witness ==
    /\ TraCallDone /\ TraMatched /\ found_rc = 1
    /\ First(RevComp(Seq1), TRA.pre_umi) = 1
    /\ CompositeAt(RevComp(Seq1), TRA, 1, "A")
    /\ Len(Seq1) = OffEnd(TRA, 1) + 1
    /\ umi1 = U_X /\ umi2 = U_Y

\* The claim C8 for the call on the string s with motif m.
StructureDecides(s, m, matched) ==
    LET z == Searched(s, m)
        i == First(z, m.pre_umi)
    IN  (i # -1 /\ Follow(s, m) >= Need(m))
            => (matched <=> /\ At(z, OffLinker(m, i), m.linker)
                            /\ At(z, OffFlank(m, i), m.flank)
                            /\ z[OffTerm(m, i) + 1] \in {"A", "T"})

\* C8: when the first anchor of the searched orientation has at least
\* 7 + len(linker) + 7 + len(flank) + 1 characters after it, the
\* extraction matches exactly when the linker and the flank stand at
\* their offsets, character for character, and the next character is 'A'
\* or 'T', whatever the UMIs are.
C8_StructureDecides ==
    /\ TraCallDone => StructureDecides(Seq1, TRA, TraMatched)
    /\ TrbCallDone => StructureDecides(Seq2, TRB, TrbMatched)

\* A composite that ends in 'T' has been matched, and so the one in the
\* read; a composite with one character of its flank changed would not
\* have been.
C8_Witness ==
    /\ TraCallDone /\ TraMatched /\ found_rc = 0
    /\ Follow(Seq1, TRA) >= Need(TRA)
    /\ Seq1[OffTerm(TRA, First(Seq1, TRA.pre_umi)) + 1] = "T"

\* One character of the linker differs and the extraction has failed.
C8_WitnessCorrupt ==
    /\ TrbCallDone /\ ~TrbMatched
    /\ Follow(Seq2, TRB) >= Need(TRB)
    /\ LET z == Searched(Seq2, TRB)
           i == First(z, TRB.pre_umi)
       IN  /\ At(z, OffLinker(TRB, i), Corrupt(TRB.linker, Len(TRB.linker)))
           /\ At(z, OffFlank(TRB, i), TRB.flank)
           /\ z[OffTerm(TRB, i) + 1] = "A"

============================================================================
